---------------------------- MODULE Spec2Model ----------------------------
(***************************************************************************)
(* Model of the class-name composer cn (lib/utils/cn) and of the styled    *)
(* wrapper components built on it (label, avatar, dialog, sheet).          *)
(*                                                                         *)
(* cn(...inputs) is twMerge(clsx(inputs)).  clsx and twMerge are computed  *)
(* here the way the libraries compute them (clsx 2.x: toVal; tailwind-     *)
(* merge 3.x: parseClassName, sortModifiers, getClassGroupId,              *)
(* getConflictingClassGroupIds, mergeClassList), over character strings.   *)
(* The class-group table is the part of tailwind-merge's default           *)
(* configuration that the wrappers' default class strings and the inputs   *)
(* drawn below touch.                                                      *)
(*                                                                         *)
(* The program is stateless: every operation is one call.  The state       *)
(* records the last operation: which function ran, the cn calls it made    *)
(* (arguments and returned string) and, for a wrapper, the caller's props  *)
(* and the elements it handed to the underlying primitives.                *)
(***************************************************************************)
EXTENDS Integers, Sequences, FiniteSets, TLC

VARIABLES
    fn,        \* name of the function the last operation called
    calls,     \* the cn calls it made, in order: [inputs, out]
    props,     \* the props object a wrapper was called with
    elements   \* the elements the wrapper created, in order: [type, props, kids]

vars == <<fn, calls, props, elements>>

-----------------------------------------------------------------------------
(* Strings.  A string is a TLA+ string; its characters are its substrings   *)
(* of length one.                                                           *)

Char(s, i) == SubSeq(s, i, i)

\* String.prototype.substring(from0) with a 0-based start.
SubstringFrom(s, from0) == SubSeq(s, from0 + 1, Len(s))

\* String.prototype.substring(0, to0) with a 0-based, exclusive end.
SubstringTo(s, to0) == SubSeq(s, 1, IF to0 > Len(s) THEN Len(s) ELSE to0)

StartsWith(s, p) == Len(s) >= Len(p) /\ SubSeq(s, 1, Len(p)) = p

EndsWith(s, p) == Len(s) >= Len(p) /\ SubSeq(s, Len(s) - Len(p) + 1, Len(s)) = p

\* The characters \s matches among those the model's strings hold.
IsSpace(c) == c \in {" ", "\t", "\n"}

IsDigit(c) == c \in {"0", "1", "2", "3", "4", "5", "6", "7", "8", "9"}

\* The indices of s in increasing order, as a sequence, that satisfy Keep.
SortedSeq(S) ==
    [k \in 1..Cardinality(S) |-> CHOOSE x \in S : Cardinality({y \in S : y <= x}) = k]

\* Array.prototype.join(sep).
RECURSIVE Join(_, _)
Join(parts, sep) ==
    IF Len(parts) = 0 THEN ""
    ELSE IF Len(parts) = 1 THEN parts[1]
    ELSE parts[1] \o sep \o Join(Tail(parts), sep)

\* String.prototype.split(sep) for a one-character separator.
SplitChar(s, sep) ==
    LET cuts == SortedSeq({i \in 1..Len(s) : Char(s, i) = sep})
        n == Len(cuts)
        from(k) == IF k = 1 THEN 1 ELSE cuts[k - 1] + 1
        to(k) == IF k = n + 1 THEN Len(s) ELSE cuts[k] - 1
    IN  [k \in 1..(n + 1) |-> SubSeq(s, from(k), to(k))]

\* String.prototype.trim().
Trim(s) ==
    LET ink == {i \in 1..Len(s) : ~IsSpace(Char(s, i))}
        n == Len(s)
    IN  IF ink = {} THEN ""
        ELSE SubSeq(s, CHOOSE i \in 1..n : i \in ink /\ \A j \in 1..(i - 1) : j \notin ink,
                       n - (CHOOSE t \in 0..(n - 1) :
                               (n - t) \in ink /\ \A u \in 0..(t - 1) : (n - u) \notin ink))

\* s.split(/\s+/) for a trimmed string s ("".split(/\s+/) is [""]).
SplitClasses(s) ==
    IF s = "" THEN <<"">>
    ELSE
        LET n == Len(s)
            starts == SortedSeq({i \in 1..n :
                          /\ ~IsSpace(Char(s, i))
                          /\ (i = 1 \/ IsSpace(Char(s, i - 1)))})
            stop(i) == CHOOSE j \in i..n :
                          /\ (j = n \/ IsSpace(Char(s, j + 1)))
                          /\ \A k \in i..j : ~IsSpace(Char(s, k))
        IN  [k \in 1..Len(starts) |-> SubSeq(s, starts[k], stop(starts[k]))]

-----------------------------------------------------------------------------
(* JavaScript values, as far as clsx and the wrappers tell them apart.     *)

Str(s) == [t |-> "string", v |-> s]
Num(n) == [t |-> "number", v |-> n]
Bool(b) == [t |-> "boolean", v |-> b]
Null == [t |-> "null", v |-> 0]
Undefined == [t |-> "undefined", v |-> 0]
Arr(items) == [t |-> "array", v |-> items]
\* An object literal: its own enumerable keys in insertion order, each with its value.
Obj(entries) == [t |-> "object", v |-> entries]
\* A value whose typeof is neither string, number nor object, and is truthy.
Fn == [t |-> "function", v |-> 0]

\* A faulty variant of Truthy: everything but null and undefined counts.
TruthyWhenDefined(x) == x.t \notin {"null", "undefined"}

\* JavaScript truthiness.
Truthy(x) ==
    CASE x.t = "string" -> x.v /= ""
      [] x.t = "number" -> x.v /= 0
      [] x.t = "boolean" -> x.v
      [] x.t \in {"null", "undefined"} -> FALSE
      [] OTHER -> TRUE

-----------------------------------------------------------------------------
(* clsx 2.x.                                                                *)

\* str && (str += ' '); str += y
AppendClass(str, y) == (IF str /= "" THEN str \o " " ELSE str) \o y

RECURSIVE toVal(_)
RECURSIVE toValArray(_, _, _)

\* for (k = 0; k < len; k++) if (mix[k]) if (y = toVal(mix[k])) { str && (str += ' '); str += y }
toValArray(items, k, str) ==
    IF k > Len(items) THEN str
    ELSE
        LET y == IF Truthy(items[k]) THEN toVal(items[k]) ELSE ""
        IN  toValArray(items, k + 1, IF y /= "" THEN AppendClass(str, y) ELSE str)

\* for (y in mix) if (mix[y]) { str && (str += ' '); str += y }
RECURSIVE toValObject(_, _, _)
toValObject(entries, k, str) ==
    IF k > Len(entries) THEN str
    ELSE toValObject(entries, k + 1,
             IF Truthy(entries[k].v) THEN AppendClass(str, entries[k].k) ELSE str)

\* A faulty variant of toVal: a true boolean is written out like a number.
toValOfAnything(mix) ==
    CASE mix.t = "string" -> mix.v
      [] mix.t = "number" -> ToString(mix.v)
      [] mix.t = "boolean" -> "true"
      [] mix.t = "array" -> toValArray(mix.v, 1, "")
      [] mix.t = "object" -> toValObject(mix.v, 1, "")
      [] OTHER -> ""

toVal(mix) ==
    CASE mix.t = "string" -> mix.v
      [] mix.t = "number" -> ToString(mix.v)
      [] mix.t = "array" -> toValArray(mix.v, 1, "")
      [] mix.t = "object" -> toValObject(mix.v, 1, "")
      [] OTHER -> ""

\* clsx(...arguments): each truthy argument's toVal, joined by single spaces.
clsx(arguments) == toValArray(arguments, 1, "")

-----------------------------------------------------------------------------
(* tailwind-merge 3.x: parseClassName and sortModifiers.                    *)

\* bracketDepth / parenDepth when the loop of parseClassName reaches index i.
BracketDepth(s, i) ==
    Cardinality({k \in 1..(i - 1) : Char(s, k) = "["})
        - Cardinality({k \in 1..(i - 1) : Char(s, k) = "]"})

ParenDepth(s, i) ==
    Cardinality({k \in 1..(i - 1) : Char(s, k) = "("})
        - Cardinality({k \in 1..(i - 1) : Char(s, k) = ")"})

\* The indices (1-based) of character c met with bracketDepth = 0 and parenDepth = 0.
TopLevel(s, c) ==
    {i \in 1..Len(s) : Char(s, i) = c /\ BracketDepth(s, i) = 0 /\ ParenDepth(s, i) = 0}

stripImportantModifier(baseClassName) ==
    IF EndsWith(baseClassName, "!")
    THEN SubstringTo(baseClassName, Len(baseClassName) - 1)
    ELSE IF StartsWith(baseClassName, "!")
    THEN SubstringFrom(baseClassName, 1)
    ELSE baseClassName

\* maybePostfixModifierPosition is 0 where the library has undefined: the
\* library only tests it for truthiness, and a defined position is positive.
parseClassName(className) ==
    LET colons == SortedSeq(TopLevel(className, ":"))
        slashes == TopLevel(className, "/")
        \* 0-based index of the character after the last separator
        modifierStart == IF Len(colons) = 0 THEN 0 ELSE colons[Len(colons)]
        \* 0-based index of the last top-level "/", -1 for none
        postfixModifierPosition ==
            IF slashes = {} THEN -1
            ELSE (CHOOSE i \in slashes : \A j \in slashes : i >= j) - 1
        baseClassNameWithImportantModifier ==
            IF Len(colons) = 0 THEN className ELSE SubstringFrom(className, modifierStart)
        baseClassName == stripImportantModifier(baseClassNameWithImportantModifier)
    IN  [modifiers |->
             [k \in 1..Len(colons) |->
                 SubSeq(className, IF k = 1 THEN 1 ELSE colons[k - 1] + 1, colons[k] - 1)],
         hasImportantModifier |-> baseClassName /= baseClassNameWithImportantModifier,
         baseClassName |-> baseClassName,
         maybePostfixModifierPosition |->
             IF postfixModifierPosition > 0 /\ postfixModifierPosition > modifierStart
             THEN postfixModifierPosition - modifierStart
             ELSE 0]

\* The characters of the model's strings in increasing UTF-16 code.
CodeOrder ==
    " !#%&()*+,-./0123456789:;<=>?@ABCDEFGHIJKLMNOPQRSTUVWXYZ[]_abcdefghijklmnopqrstuvwxyz"

CharCode(c) == CHOOSE i \in 1..Len(CodeOrder) : Char(CodeOrder, i) = c

\* a < b in the order Array.prototype.sort() uses by default (UTF-16 code units).
StrLess(a, b) ==
    LET m == IF Len(a) < Len(b) THEN Len(a) ELSE Len(b)
        d == {i \in 1..m : Char(a, i) /= Char(b, i)}
    IN  IF d = {} THEN Len(a) < Len(b)
        ELSE LET i == CHOOSE x \in d : \A y \in d : x <= y
             IN  CharCode(Char(a, i)) < CharCode(Char(b, i))

\* Array.prototype.sort() of an array of strings.
SortStrings(xs) ==
    LET rank(k) == Cardinality({j \in 1..Len(xs) : StrLess(xs[j], xs[k])})
                     + Cardinality({j \in 1..(k - 1) : xs[j] = xs[k]}) + 1
    IN  [r \in 1..Len(xs) |-> xs[CHOOSE k \in 1..Len(xs) : rank(k) = r]]

\* The default configuration's orderSensitiveModifiers.
orderSensitiveModifiers ==
    {"*", "**", "after", "backdrop", "before", "details-content", "file",
     "first-letter", "first-line", "marker", "placeholder", "selection"}

RECURSIVE sortModifiersFrom(_, _, _, _)
sortModifiersFrom(modifiers, k, sortedModifiers, unsortedModifiers) ==
    IF k > Len(modifiers) THEN sortedModifiers \o SortStrings(unsortedModifiers)
    ELSE
        LET modifier == modifiers[k]
            isPositionSensitive ==
                StartsWith(modifier, "[") \/ modifier \in orderSensitiveModifiers
        IN  IF isPositionSensitive
            THEN sortModifiersFrom(modifiers, k + 1,
                     sortedModifiers \o SortStrings(unsortedModifiers) \o <<modifier>>, <<>>)
            ELSE sortModifiersFrom(modifiers, k + 1,
                     sortedModifiers, Append(unsortedModifiers, modifier))

\* A faulty variant of sortModifiers: the modifiers stay as written.
sortModifiersAsWritten(modifiers) == modifiers

sortModifiers(modifiers) ==
    IF Len(modifiers) <= 1 THEN modifiers
    ELSE sortModifiersFrom(modifiers, 1, <<>>, <<>>)

-----------------------------------------------------------------------------
(* tailwind-merge 3.x: validators.                                          *)

AllDigits(s) == s /= "" /\ \A i \in 1..Len(s) : IsDigit(Char(s, i))

\* A decimal numeral: digits with at most one "." among them.
IsDecimal(s) ==
    /\ s /= ""
    /\ \A i \in 1..Len(s) : IsDigit(Char(s, i)) \/ Char(s, i) = "."
    /\ Cardinality({i \in 1..Len(s) : Char(s, i) = "."}) <= 1
    /\ \E i \in 1..Len(s) : IsDigit(Char(s, i))

\* isNumber: Boolean(value) && !Number.isNaN(Number(value)), on decimal numerals.
isNumber(value) == IsDecimal(value)

\* isInteger: Boolean(value) && Number.isInteger(Number(value)), on decimal numerals.
isInteger(value) == AllDigits(value)

\* isFraction: /^\d+\/\d+$/
isFraction(value) ==
    \E i \in 1..Len(value) :
        /\ Char(value, i) = "/"
        /\ AllDigits(SubSeq(value, 1, i - 1))
        /\ AllDigits(SubSeq(value, i + 1, Len(value)))

\* isTshirtSize: /^(\d+(\.\d+)?)?(xs|sm|md|lg|xl)$/
isTshirtSize(value) ==
    /\ Len(value) >= 2
    /\ SubSeq(value, Len(value) - 1, Len(value)) \in {"xs", "sm", "md", "lg", "xl"}
    /\ LET n == SubSeq(value, 1, Len(value) - 2)
       IN  n = "" \/ (IsDecimal(n) /\ IsDigit(Char(n, 1)) /\ IsDigit(Char(n, Len(n))))

\* isArbitraryValue: /^\[(?:(\w[\w-]*):)?(.+)\]$/i
isArbitraryValue(value) ==
    Len(value) >= 3 /\ StartsWith(value, "[") /\ EndsWith(value, "]")

\* isArbitraryVariable: /^\((?:(\w[\w-]*):)?(.+)\)$/
isArbitraryVariable(value) ==
    Len(value) >= 3 /\ StartsWith(value, "(") /\ EndsWith(value, ")")

\* isArbitraryLength: an arbitrary value labelled length:, or unlabelled and a
\* number followed by a length unit (px, rem, em, %: the units the inputs use).
isArbitraryLength(value) ==
    /\ isArbitraryValue(value)
    /\ LET inner == SubSeq(value, 2, Len(value) - 1)
       IN  \/ StartsWith(inner, "length:")
           \/ \E u \in {"px", "rem", "em", "%"} :
                 /\ EndsWith(inner, u)
                 /\ IsDecimal(SubSeq(inner, 1, Len(inner) - Len(u)))

validate(validator, value) ==
    CASE validator = "isAny" -> TRUE
      [] validator = "isNumber" -> isNumber(value)
      [] validator = "isInteger" -> isInteger(value)
      [] validator = "isFraction" -> isFraction(value)
      [] validator = "isTshirtSize" -> isTshirtSize(value)
      [] validator = "isArbitraryValue" -> isArbitraryValue(value)
      [] validator = "isArbitraryVariable" -> isArbitraryVariable(value)
      [] validator = "isArbitraryLength" -> isArbitraryLength(value)
      [] OTHER -> FALSE

-----------------------------------------------------------------------------
(* tailwind-merge 3.x: the default configuration's class groups (the part   *)
(* the wrappers' defaults and the inputs drawn here touch), in the order of *)
(* getDefaultConfig.  A definition is a literal class part ("" is the key   *)
(* itself) or a validator; a theme getter is written as the theme's values. *)

lit(x) == [k |-> "lit", x |-> x]
val(x) == [k |-> "val", x |-> x]
lits(xs) == [i \in 1..Len(xs) |-> lit(xs[i])]

\* classGroups[g] = [{ key: defs }] (key "" for definitions at the top level)
Group(g, key, defs) ==
    [i \in 1..Len(defs) |-> [g |-> g, key |-> key, k |-> defs[i].k, x |-> defs[i].x]]

\* theme.spacing is ['px', isNumber]
scaleUnambiguousSpacing ==
    <<val("isArbitraryVariable"), val("isArbitraryValue"), lit("px"), val("isNumber")>>

scaleInset == <<val("isFraction"), lit("full"), lit("auto")>> \o scaleUnambiguousSpacing

scaleSizing ==
    <<val("isFraction")>>
        \o lits(<<"auto", "full", "dvw", "dvh", "lvw", "lvh", "svw", "svh", "min", "max", "fit">>)
        \o scaleUnambiguousSpacing

scaleMargin == <<lit("auto")>> \o scaleUnambiguousSpacing

\* theme.color is [isAny]
scaleColor == <<val("isAny"), val("isArbitraryVariable"), val("isArbitraryValue")>>

\* theme.radius is [isTshirtSize]
scaleRadius ==
    lits(<<"", "none", "full">>)
        \o <<val("isTshirtSize"), val("isArbitraryVariable"), val("isArbitraryValue")>>

scaleBorderWidth == <<lit(""), val("isNumber"), val("isArbitraryLength")>>

scaleTranslate == <<val("isFraction"), lit("full")>> \o scaleUnambiguousSpacing

scaleOverflow == lits(<<"auto", "hidden", "clip", "visible", "scroll">>)

classGroups ==
    \* Layout
    Group("aspect", "aspect",
          lits(<<"auto", "square">>)
              \o <<val("isFraction"), val("isArbitraryValue"), val("isArbitraryVariable"),
                   lit("video")>>)
    \o Group("display", "",
             lits(<<"block", "inline-block", "inline", "flex", "inline-flex", "table",
                    "grid", "inline-grid", "contents", "hidden">>))
    \o Group("overflow", "overflow", scaleOverflow)
    \o Group("overflow-x", "overflow-x", scaleOverflow)
    \o Group("overflow-y", "overflow-y", scaleOverflow)
    \o Group("position", "", lits(<<"static", "fixed", "absolute", "relative", "sticky">>))
    \o Group("inset", "inset", scaleInset)
    \o Group("inset-x", "inset-x", scaleInset)
    \o Group("inset-y", "inset-y", scaleInset)
    \o Group("start", "start", scaleInset)
    \o Group("end", "end", scaleInset)
    \o Group("top", "top", scaleInset)
    \o Group("right", "right", scaleInset)
    \o Group("bottom", "bottom", scaleInset)
    \o Group("left", "left", scaleInset)
    \o Group("z", "z",
             <<val("isInteger"), lit("auto"), val("isArbitraryVariable"),
               val("isArbitraryValue")>>)
    \* Flexbox and Grid
    \o Group("flex-direction", "flex", lits(<<"row", "row-reverse", "col", "col-reverse">>))
    \o Group("flex-wrap", "flex", lits(<<"nowrap", "wrap", "wrap-reverse">>))
    \o Group("flex", "flex",
             <<val("isNumber"), val("isFraction"), lit("auto"), lit("initial"), lit("none"),
               val("isArbitraryValue")>>)
    \o Group("grow", "grow",
             <<lit(""), val("isNumber"), val("isArbitraryVariable"), val("isArbitraryValue")>>)
    \o Group("shrink", "shrink",
             <<lit(""), val("isNumber"), val("isArbitraryVariable"), val("isArbitraryValue")>>)
    \o Group("gap", "gap", scaleUnambiguousSpacing)
    \o Group("gap-x", "gap-x", scaleUnambiguousSpacing)
    \o Group("gap-y", "gap-y", scaleUnambiguousSpacing)
    \o Group("justify-content", "justify",
             lits(<<"start", "end", "center", "between", "around", "evenly", "stretch",
                    "baseline", "center-safe", "end-safe", "normal">>))
    \o Group("align-items", "items",
             lits(<<"start", "end", "center", "stretch", "center-safe", "end-safe",
                    "baseline", "baseline-last">>))
    \* Spacing
    \o Group("p", "p", scaleUnambiguousSpacing)
    \o Group("px", "px", scaleUnambiguousSpacing)
    \o Group("py", "py", scaleUnambiguousSpacing)
    \o Group("ps", "ps", scaleUnambiguousSpacing)
    \o Group("pe", "pe", scaleUnambiguousSpacing)
    \o Group("pt", "pt", scaleUnambiguousSpacing)
    \o Group("pr", "pr", scaleUnambiguousSpacing)
    \o Group("pb", "pb", scaleUnambiguousSpacing)
    \o Group("pl", "pl", scaleUnambiguousSpacing)
    \o Group("m", "m", scaleMargin)
    \o Group("mx", "mx", scaleMargin)
    \o Group("my", "my", scaleMargin)
    \o Group("mt", "mt", scaleMargin)
    \o Group("mb", "mb", scaleMargin)
    \* Sizing
    \o Group("size", "size", scaleSizing)
    \o Group("w", "w", <<val("isTshirtSize"), lit("screen")>> \o scaleSizing)
    \o Group("max-w", "max-w",
             <<val("isTshirtSize"), lit("screen"), lit("none"), lit("prose")>> \o scaleSizing)
    \o Group("h", "h", <<lit("screen"), lit("lh")>> \o scaleSizing)
    \* Typography
    \o Group("font-size", "text",
             <<lit("base"), val("isTshirtSize"), val("isArbitraryLength")>>)
    \o Group("font-weight", "font",
             lits(<<"thin", "extralight", "light", "normal", "medium", "semibold", "bold",
                    "extrabold", "black">>))
    \o Group("leading", "leading",
             lits(<<"none", "tight", "snug", "normal", "relaxed", "loose">>)
                 \o scaleUnambiguousSpacing)
    \o Group("text-alignment", "text",
             lits(<<"left", "center", "right", "justify", "start", "end">>))
    \o Group("text-color", "text", scaleColor)
    \* Backgrounds
    \o Group("bg-color", "bg", scaleColor)
    \* Borders
    \o Group("rounded", "rounded", scaleRadius)
    \o Group("rounded-t", "rounded-t", scaleRadius)
    \o Group("rounded-r", "rounded-r", scaleRadius)
    \o Group("rounded-b", "rounded-b", scaleRadius)
    \o Group("rounded-l", "rounded-l", scaleRadius)
    \o Group("border-w", "border", scaleBorderWidth)
    \o Group("border-w-x", "border-x", scaleBorderWidth)
    \o Group("border-w-y", "border-y", scaleBorderWidth)
    \o Group("border-w-t", "border-t", scaleBorderWidth)
    \o Group("border-w-r", "border-r", scaleBorderWidth)
    \o Group("border-w-b", "border-b", scaleBorderWidth)
    \o Group("border-w-l", "border-l", scaleBorderWidth)
    \o Group("border-color", "border", scaleColor)
    \* Effects
    \o Group("shadow", "shadow",
             <<lit(""), lit("none"), val("isTshirtSize")>>)
    \o Group("shadow-color", "shadow", scaleColor)
    \o Group("opacity", "opacity",
             <<val("isNumber"), val("isArbitraryVariable"), val("isArbitraryValue")>>)
    \* Transitions and Animation
    \o Group("transition", "transition",
             lits(<<"", "all", "colors", "opacity", "shadow", "transform", "none">>)
                 \o <<val("isArbitraryVariable"), val("isArbitraryValue")>>)
    \o Group("duration", "duration",
             <<val("isNumber"), lit("initial"), val("isArbitraryVariable"),
               val("isArbitraryValue")>>)
    \o Group("ease", "ease",
             lits(<<"linear", "initial", "in", "out", "in-out">>)
                 \o <<val("isArbitraryVariable"), val("isArbitraryValue")>>)
    \o Group("animate", "animate",
             lits(<<"none", "spin", "ping", "pulse", "bounce">>)
                 \o <<val("isArbitraryVariable"), val("isArbitraryValue")>>)
    \* Transforms
    \o Group("translate", "translate", scaleTranslate)
    \o Group("translate-x", "translate-x", scaleTranslate)
    \o Group("translate-y", "translate-y", scaleTranslate)
    \* Interactivity
    \o Group("cursor", "cursor",
             lits(<<"auto", "default", "pointer", "wait", "text", "move", "help",
                    "not-allowed", "none", "grab", "grabbing">>)
                 \o <<val("isArbitraryVariable"), val("isArbitraryValue")>>)
    \o Group("pointer-events", "pointer-events", lits(<<"auto", "none">>))
    \o Group("select", "select", lits(<<"none", "text", "all", "auto">>))

\* conflictingClassGroups of the default configuration, for the groups above.
conflictingClassGroups(classGroupId) ==
    CASE classGroupId = "overflow" -> {"overflow-x", "overflow-y"}
      [] classGroupId = "inset" ->
             {"inset-x", "inset-y", "start", "end", "top", "right", "bottom", "left"}
      [] classGroupId = "inset-x" -> {"right", "left"}
      [] classGroupId = "inset-y" -> {"top", "bottom"}
      [] classGroupId = "flex" -> {"basis", "grow", "shrink"}
      [] classGroupId = "gap" -> {"gap-x", "gap-y"}
      [] classGroupId = "p" -> {"px", "py", "ps", "pe", "pt", "pr", "pb", "pl"}
      [] classGroupId = "px" -> {"pr", "pl"}
      [] classGroupId = "py" -> {"pt", "pb"}
      [] classGroupId = "m" -> {"mx", "my", "ms", "me", "mt", "mr", "mb", "ml"}
      [] classGroupId = "mx" -> {"mr", "ml"}
      [] classGroupId = "my" -> {"mt", "mb"}
      [] classGroupId = "size" -> {"w", "h"}
      [] classGroupId = "font-size" -> {"leading"}
      [] classGroupId = "rounded" ->
             {"rounded-s", "rounded-e", "rounded-t", "rounded-r", "rounded-b", "rounded-l",
              "rounded-ss", "rounded-se", "rounded-ee", "rounded-es", "rounded-tl",
              "rounded-tr", "rounded-br", "rounded-bl"}
      [] classGroupId = "rounded-t" -> {"rounded-tl", "rounded-tr"}
      [] classGroupId = "rounded-r" -> {"rounded-tr", "rounded-br"}
      [] classGroupId = "rounded-b" -> {"rounded-br", "rounded-bl"}
      [] classGroupId = "rounded-l" -> {"rounded-tl", "rounded-bl"}
      [] classGroupId = "border-w" ->
             {"border-w-x", "border-w-y", "border-w-s", "border-w-e", "border-w-t",
              "border-w-r", "border-w-b", "border-w-l"}
      [] classGroupId = "border-w-x" -> {"border-w-r", "border-w-l"}
      [] classGroupId = "border-w-y" -> {"border-w-t", "border-w-b"}
      [] classGroupId = "translate" -> {"translate-x", "translate-y", "translate-none"}
      [] OTHER -> {}

\* conflictingClassGroupModifiers of the default configuration.
conflictingClassGroupModifiers(classGroupId) ==
    IF classGroupId = "font-size" THEN {"leading"} ELSE {}

-----------------------------------------------------------------------------
(* tailwind-merge 3.x: createClassMap and getClassGroupId.                  *)

\* The path of class parts ('-' separated) from the root of the class map to
\* the node a definition is registered at.
PathOf(e) ==
    IF e.k = "val" \/ e.x = "" THEN SplitChar(e.key, "-")
    ELSE IF e.key = "" THEN SplitChar(e.x, "-")
    ELSE SplitChar(e.key, "-") \o SplitChar(e.x, "-")

\* Every definition with the path of the node it is registered at.
classDefinitions ==
    <<>> \o [i \in 1..Len(classGroups) |->
                [path |-> PathOf(classGroups[i]), k |-> classGroups[i].k,
                 x |-> classGroups[i].x, g |-> classGroups[i].g]]

Prefixes(path) == {SubSeq(path, 1, n) : n \in 0..Len(path)}

\* createClassMap(config): the class part objects, by path from the root.
\* classGroupId is the group of the class that ends at the node ("" for
\* none), validators the node's validators in order of registration, each
\* with its group.  nextPart.get(part) is the node at path + part, if any.
createClassMap(definitions) ==
    LET n == Len(definitions)
        paths == UNION {Prefixes(definitions[i].path) : i \in 1..n}
        ends(path) == {i \in 1..n : definitions[i].k = "lit" /\ definitions[i].path = path}
        checks(path) == SortedSeq({i \in 1..n : definitions[i].k = "val"
                                                  /\ definitions[i].path = path})
    IN  [path \in paths |->
            [classGroupId |->
                 IF ends(path) = {} THEN ""
                 ELSE definitions[CHOOSE i \in ends(path) : \A j \in ends(path) : i >= j].g,
             validators |->
                 [v \in 1..Len(checks(path)) |->
                     [validator |-> definitions[checks(path)[v]].x,
                      classGroupId |-> definitions[checks(path)[v]].g]]]]
        @@ <<>>

\* createConfigUtils(config): the class map, built once.
configUtils == [classMap |-> createClassMap(classDefinitions)]

\* validators.find(({ validator }) => validator(classRest))?.classGroupId
RECURSIVE findValidator(_, _, _)
findValidator(validators, v, classRest) ==
    IF v > Len(validators) THEN ""
    ELSE IF validate(validators[v].validator, classRest) THEN validators[v].classGroupId
    ELSE findValidator(validators, v + 1, classRest)

\* "" stands for undefined.
RECURSIVE getGroupRecursive(_, _, _)
getGroupRecursive(classParts, path, classMap) ==
    IF Len(classParts) = 0 THEN classMap[path].classGroupId
    ELSE
        LET next == Append(path, classParts[1])
            classGroupFromNextClassPart ==
                IF next \in DOMAIN classMap
                THEN getGroupRecursive(Tail(classParts), next, classMap)
                ELSE ""
        IN  IF classGroupFromNextClassPart /= "" THEN classGroupFromNextClassPart
            ELSE IF Len(classMap[path].validators) = 0 THEN ""
            ELSE findValidator(classMap[path].validators, 1, Join(classParts, "-"))

\* arbitraryPropertyRegex /^\[(.+)\]$/, then the text before the first ':'
getGroupIdForArbitraryProperty(className) ==
    IF Len(className) >= 3 /\ StartsWith(className, "[") /\ EndsWith(className, "]")
    THEN LET content == SubSeq(className, 2, Len(className) - 1)
             at == {i \in 1..Len(content) : Char(content, i) = ":"}
             property == IF at = {} THEN ""
                         ELSE SubSeq(content, 1, (CHOOSE i \in at : \A j \in at : i <= j) - 1)
         IN  IF property /= "" THEN "arbitrary.." \o property ELSE ""
    ELSE ""

getClassGroupId(className, classMap) ==
    LET split == SplitChar(className, "-")
        \* a negative value's leading '-' gives an empty first part: skip it
        classParts == IF split[1] = "" /\ Len(split) /= 1 THEN Tail(split) ELSE split
        group == getGroupRecursive(classParts, <<>>, classMap)
    IN  IF group /= "" THEN group ELSE getGroupIdForArbitraryProperty(className)

getConflictingClassGroupIds(classGroupId, hasPostfixModifier) ==
    IF hasPostfixModifier
    THEN conflictingClassGroups(classGroupId) \cup conflictingClassGroupModifiers(classGroupId)
    ELSE conflictingClassGroups(classGroupId)

-----------------------------------------------------------------------------
(* tailwind-merge 3.x: mergeClassList, twMerge.                             *)

\* What the body of mergeClassList's loop works out for one class name:
\* classGroupId "" is "not a Tailwind class"; classId is modifierId + classGroupId.
ClassOf(originalClassName, utils) ==
    LET ids(parsed, position, withoutPostfix) ==
            LET classGroupId ==
                    IF withoutPostfix /= "" THEN withoutPostfix
                    ELSE IF position /= 0
                    THEN getClassGroupId(parsed.baseClassName, utils.classMap)
                    ELSE ""
                variantModifier == Join(sortModifiers(parsed.modifiers), ":")
                modifierId ==
                    IF parsed.hasImportantModifier THEN variantModifier \o "!"
                    ELSE variantModifier
            IN  [classGroupId |-> classGroupId,
                 hasPostfixModifier |-> position /= 0 /\ withoutPostfix /= "",
                 modifierId |-> modifierId,
                 classId |-> modifierId \o classGroupId]
        lookup(parsed, position) ==
            ids(parsed, position,
                getClassGroupId(IF position /= 0
                                THEN SubstringTo(parsed.baseClassName, position)
                                ELSE parsed.baseClassName,
                                utils.classMap))
        class(parsed) == lookup(parsed, parsed.maybePostfixModifierPosition)
    IN  class(parseClassName(originalClassName))

\* A faulty variant of Prepend: the class name goes behind the result.
PrependBehind(originalClassName, result) ==
    (IF Len(result) > 0 THEN result \o " " ELSE result) \o originalClassName

\* result = originalClassName + (result.length > 0 ? ' ' + result : result)
Prepend(originalClassName, result) ==
    originalClassName \o (IF Len(result) > 0 THEN " " \o result ELSE result)

\* for (let index = classNames.length - 1; index >= 0; index -= 1) { ... }
RECURSIVE mergeFrom(_, _, _, _, _)
mergeFrom(classNames, index, classGroupsInConflict, result, utils) ==
    IF index = 0 THEN result
    ELSE
        LET originalClassName == classNames[index]
            step(c) ==
                IF c.classGroupId = ""
                THEN mergeFrom(classNames, index - 1, classGroupsInConflict,
                               Prepend(originalClassName, result), utils)
                ELSE IF c.classId \in classGroupsInConflict
                THEN mergeFrom(classNames, index - 1, classGroupsInConflict, result, utils)
                ELSE mergeFrom(classNames, index - 1,
                         classGroupsInConflict \cup {c.classId}
                             \cup {c.modifierId \o group :
                                      group \in getConflictingClassGroupIds(
                                                    c.classGroupId, c.hasPostfixModifier)},
                         Prepend(originalClassName, result), utils)
        IN  step(ClassOf(originalClassName, utils))

\* A faulty variant of mergeClassList: no conflict is resolved.
mergeClassListWithoutConflicts(classList, utils) ==
    LET classNames == SplitClasses(Trim(classList))
    IN  Join(classNames, " ")

\* A faulty variant of mergeClassList: of equal class names only the last is merged.
mergeClassListOfDistinct(classList, utils) ==
    LET classNames == SplitClasses(Trim(classList))
        last == SortedSeq({i \in 1..Len(classNames) :
                    \A j \in (i + 1)..Len(classNames) : classNames[j] /= classNames[i]})
        distinct == [k \in 1..Len(last) |-> classNames[last[k]]]
    IN  mergeFrom(distinct, Len(distinct), {}, "", utils)

\* A faulty variant of mergeClassList: class names of no class group are left out.
mergeClassListOfKnown(classList, utils) ==
    LET classNames == SelectSeq(SplitClasses(Trim(classList)),
                                LAMBDA name : ClassOf(name, utils).classGroupId /= "")
    IN  mergeFrom(classNames, Len(classNames), {}, "", utils)

\* mergeClassList(classList, configUtils)
mergeClassList(classList, utils) ==
    LET merge(classNames) == mergeFrom(classNames, Len(classNames), {}, "", utils)
    IN  merge(SplitClasses(Trim(classList)))

\* twMerge of one class list (twJoin of a single string is that string; the
\* result cache returns what mergeClassList returned for the same string).
twMerge(classList) == mergeClassList(classList, configUtils)

-----------------------------------------------------------------------------
(* lib/utils/cn                                                             *)

\* A faulty variant of cn: each input is merged on its own.
cnOfEach(inputs) ==
    LET each == [i \in 1..Len(inputs) |-> twMerge(clsx(<<inputs[i]>>))]
    IN  Join(SelectSeq(each, LAMBDA out : out /= ""), " ")

\* return twMerge(clsx(inputs)): clsx is called with one argument, the array.
cn(inputs) == twMerge(clsx(<<Arr(inputs)>>))

-----------------------------------------------------------------------------
(* Props objects and JSX.  A props object is a function from its own keys   *)
(* to their values.                                                         *)

NoProps == [k \in {} |-> Undefined]

Prop(key, value) == [k \in {key} |-> value]

\* props.key (undefined for a key the object does not have)
Get(p, key) == IF key \in DOMAIN p THEN p[key] ELSE Undefined

\* { ...base, ...over }: a later attribute or spread overwrites an earlier key.
Spread(base, over) ==
    [k \in DOMAIN base \cup DOMAIN over |-> IF k \in DOMAIN over THEN over[k] ELSE base[k]]

\* ({ a, b, ...rest }) => rest
Rest(p, taken) == [k \in DOMAIN p \ taken |-> p[k]]

\* A destructuring default: ({ key = dflt }) applies where props.key is undefined.
Default(value, dflt) == IF value.t = "undefined" THEN dflt ELSE value

\* One call of cn, as recorded in calls.
Call(inputs) == [inputs |-> inputs, out |-> cn(inputs)]

\* A faulty variant of Element: the props are spread first, and the wrapper's
\* data-slot and className are written over them.
ElementOverProps(type, slot, className, rest) ==
    [type |-> type,
     props |-> Spread(rest, Spread(Prop("data-slot", Str(slot)),
                                   Prop("className", Str(className))))]

\* <Type data-slot=slot className={className} {...rest} />
Element(type, slot, className, rest) ==
    [type |-> type,
     props |-> Spread(Spread(Prop("data-slot", Str(slot)), Prop("className", Str(className))),
                      rest)]

\* <Type data-slot=slot {...rest} />
Plain(type, slot, rest) ==
    [type |-> type, props |-> Spread(Prop("data-slot", Str(slot)), rest)]

-----------------------------------------------------------------------------
(* The wrappers' default class strings, as written in the source.           *)

AvatarClasses ==
    "relative flex size-8 shrink-0 overflow-hidden rounded-full"

AvatarImageClasses ==
    "aspect-square size-full"

AvatarFallbackClasses ==
    "bg-muted flex size-full items-center justify-center rounded-full"

DialogOverlayClasses ==
    "data-[state=open]:animate-in data-[state=closed]:animate-out data-[state=closed]:fade-out-0 data-[state=open]:fade-in-0 fixed inset-0 z-50 bg-black/50"

DialogContentClasses ==
    "bg-background data-[state=open]:animate-in data-[state=closed]:animate-out data-[state=closed]:fade-out-0 data-[state=open]:fade-in-0 data-[state=closed]:zoom-out-95 data-[state=open]:zoom-in-95 fixed top-[50%] left-[50%] z-50 grid w-full max-w-[calc(100%-2rem)] translate-x-[-50%] translate-y-[-50%] gap-4 rounded-lg border p-6 shadow-lg duration-200 sm:max-w-lg"

DialogHeaderClasses ==
    "flex flex-col gap-2 text-center sm:text-left"

DialogFooterClasses ==
    "flex flex-col-reverse gap-2 sm:flex-row sm:justify-end"

DialogTitleClasses ==
    "text-lg leading-none font-semibold"

DialogDescriptionClasses ==
    "text-muted-foreground text-sm"

LabelClasses ==
    "flex items-center gap-2 text-sm leading-none font-medium select-none group-data-[disabled=true]:pointer-events-none group-data-[disabled=true]:opacity-50 peer-disabled:cursor-not-allowed peer-disabled:opacity-50"

SheetOverlayClasses ==
    "data-[state=open]:animate-in data-[state=closed]:animate-out data-[state=closed]:fade-out-0 data-[state=open]:fade-in-0 fixed inset-0 z-50 bg-black/50"

SheetContentClasses ==
    "bg-background data-[state=open]:animate-in data-[state=closed]:animate-out fixed z-50 flex flex-col gap-4 shadow-lg transition ease-in-out data-[state=closed]:duration-300 data-[state=open]:duration-500"

SheetRightClasses ==
    "data-[state=closed]:slide-out-to-right data-[state=open]:slide-in-from-right inset-y-0 right-0 h-full w-3/4 border-l sm:max-w-sm"

SheetLeftClasses ==
    "data-[state=closed]:slide-out-to-left data-[state=open]:slide-in-from-left inset-y-0 left-0 h-full w-3/4 border-r sm:max-w-sm"

SheetTopClasses ==
    "data-[state=closed]:slide-out-to-top data-[state=open]:slide-in-from-top inset-x-0 top-0 h-auto border-b"

SheetBottomClasses ==
    "data-[state=closed]:slide-out-to-bottom data-[state=open]:slide-in-from-bottom inset-x-0 bottom-0 h-auto border-t"

SheetHeaderClasses ==
    "flex flex-col gap-1.5 p-4"

SheetFooterClasses ==
    "mt-auto flex flex-col gap-2 p-4"

SheetTitleClasses ==
    "text-foreground font-semibold"

SheetDescriptionClasses ==
    "text-muted-foreground text-sm"

-----------------------------------------------------------------------------
(* The wrapper components.  Each takes the caller's props and gives the cn  *)
(* calls it makes and the elements it creates: elements[1] is the element   *)
(* for the wrapper's own primitive, the elements rendered around and inside *)
(* it follow.  The close button's icon and label are left out.              *)

Rendered(cs, es) == [calls |-> cs, elements |-> es]

\* function X({ ...props }) { return <Primitive data-slot=slot {...props} /> }
Forwarding(type, slot, p) == Rendered(<<>>, <<Plain(type, slot, p)>>)

\* A faulty variant of Styled: cn(className, classes), the defaults last.
StyledDefaultsLast(type, slot, classes, p) ==
    LET className == Get(p, "className")
        rest == Rest(p, {"className"})
        c == Call(<<className, Str(classes)>>)
    IN  Rendered(<<c>>, <<Element(type, slot, c.out, rest)>>)

\* function X({ className, ...props }) {
\*   return <Primitive data-slot=slot className={cn(classes, className)} {...props} /> }
Styled(type, slot, classes, p) ==
    LET className == Get(p, "className")
        rest == Rest(p, {"className"})
        element(c) == Rendered(<<c>>, <<Element(type, slot, c.out, rest)>>)
    IN  element(Call(<<Str(classes), className>>))

Label(p) == Styled("LabelPrimitive.Root", "label", LabelClasses, p)

Avatar(p) == Styled("AvatarPrimitive.Root", "avatar", AvatarClasses, p)

AvatarImage(p) == Styled("AvatarPrimitive.Image", "avatar-image", AvatarImageClasses, p)

AvatarFallback(p) ==
    Styled("AvatarPrimitive.Fallback", "avatar-fallback", AvatarFallbackClasses, p)

Dialog(p) == Forwarding("DialogPrimitive.Root", "dialog", p)

DialogTrigger(p) == Forwarding("DialogPrimitive.Trigger", "dialog-trigger", p)

DialogPortal(p) == Forwarding("DialogPrimitive.Portal", "dialog-portal", p)

DialogClose(p) == Forwarding("DialogPrimitive.Close", "dialog-close", p)

DialogOverlay(p) ==
    Styled("DialogPrimitive.Overlay", "dialog-overlay", DialogOverlayClasses, p)

\* The close button of DialogContent: a primitive with a literal data-slot.
DialogContentClose == [type |-> "DialogPrimitive.Close", props |-> Prop("data-slot", Str("dialog-close"))]

DialogContent(p) ==
    LET className == Get(p, "className")
        children == Get(p, "children")
        showCloseButton == Default(Get(p, "showCloseButton"), Bool(TRUE))
        rest == Rest(p, {"className", "children", "showCloseButton"})
        \* {children} {showCloseButton && <DialogPrimitive.Close ... />}
        inside == Arr(<<children,
                        IF Truthy(showCloseButton) THEN Str("<DialogPrimitive.Close>")
                        ELSE showCloseButton>>)
        content(c) == Element("DialogPrimitive.Content", "dialog-content", c.out, rest)
        portal == DialogPortal(Prop("data-slot", Str("dialog-portal")))
        tree(c, overlay) ==
            Rendered(<<c>> \o overlay.calls,
                     <<[content(c) EXCEPT !.props = Spread(@, Prop("children", inside))]>>
                         \o portal.elements \o overlay.elements
                         \o (IF Truthy(showCloseButton) THEN <<DialogContentClose>>
                             ELSE <<>>))
    IN  tree(Call(<<Str(DialogContentClasses), className>>), DialogOverlay(NoProps))

DialogHeader(p) == Styled("div", "dialog-header", DialogHeaderClasses, p)

DialogFooter(p) == Styled("div", "dialog-footer", DialogFooterClasses, p)

DialogTitle(p) == Styled("DialogPrimitive.Title", "dialog-title", DialogTitleClasses, p)

DialogDescription(p) ==
    Styled("DialogPrimitive.Description", "dialog-description", DialogDescriptionClasses, p)

Sheet(p) == Forwarding("SheetPrimitive.Root", "sheet", p)

SheetTrigger(p) == Forwarding("SheetPrimitive.Trigger", "sheet-trigger", p)

SheetClose(p) == Forwarding("SheetPrimitive.Close", "sheet-close", p)

SheetPortal(p) == Forwarding("SheetPrimitive.Portal", "sheet-portal", p)

SheetOverlay(p) == Styled("SheetPrimitive.Overlay", "sheet-overlay", SheetOverlayClasses, p)

\* The close button of SheetContent: a primitive with no data-slot.
SheetContentClose == [type |-> "SheetPrimitive.Close", props |-> NoProps]

\* side === which && classes
SideClasses(side, which, classes) ==
    IF side.t = "string" /\ side.v = which THEN Str(classes) ELSE Bool(FALSE)

SheetContent(p) ==
    LET className == Get(p, "className")
        children == Get(p, "children")
        side == Default(Get(p, "side"), Str("right"))
        rest == Rest(p, {"className", "children", "side"})
        inside == Arr(<<children, Str("<SheetPrimitive.Close>")>>)
        content(c) == Element("SheetPrimitive.Content", "sheet-content", c.out, rest)
        portal == SheetPortal(NoProps)
        tree(c, overlay) ==
            Rendered(<<c>> \o overlay.calls,
                     <<[content(c) EXCEPT !.props = Spread(@, Prop("children", inside))]>>
                         \o portal.elements \o overlay.elements \o <<SheetContentClose>>)
    IN  tree(Call(<<Str(SheetContentClasses),
                    SideClasses(side, "right", SheetRightClasses),
                    SideClasses(side, "left", SheetLeftClasses),
                    SideClasses(side, "top", SheetTopClasses),
                    SideClasses(side, "bottom", SheetBottomClasses),
                    className>>),
             SheetOverlay(NoProps))

SheetHeader(p) == Styled("div", "sheet-header", SheetHeaderClasses, p)

SheetFooter(p) == Styled("div", "sheet-footer", SheetFooterClasses, p)

SheetTitle(p) == Styled("SheetPrimitive.Title", "sheet-title", SheetTitleClasses, p)

SheetDescription(p) ==
    Styled("SheetPrimitive.Description", "sheet-description", SheetDescriptionClasses, p)

-----------------------------------------------------------------------------
(* The inputs the operations are called with.                               *)

\* The longest argument list cn is called with directly.
MaxArgs == 2

\* The values an argument of cn is drawn from.
ClassValues ==
    <<Str("px-2"), Str("px-4"), Str("px-[10px] p-1"), Str("!px-2 a !px-2 a"),
      Str("text-red-500"), Str("leading-none text-lg"),
      Str("opacity-50"), Str("hover:opacity-100"),
      Str("hover:focus:px-1 focus:hover:px-2"),
      Str("before:hover:px-1 hover:before:px-2"),
      Str("rounded-sm p-2"), Str("rounded-lg"),
      Str("  b   a "),
      Arr(<<Str("a"), Arr(<<Str("b"), Str("c")>>), Str("a")>>),
      Obj(<<[k |-> "font-bold", v |-> Bool(TRUE)], [k |-> "italic", v |-> Bool(FALSE)]>>),
      Arr(<<Str(""), Null, Bool(FALSE), Undefined, Num(0), Arr(<<>>),
            Obj(<<[k |-> "px-8", v |-> Num(0)]>>)>>),
      Arr(<<Bool(TRUE), Fn>>),
      Num(5)>>

\* What a caller passes as className: nothing, undefined, or a class string.
ClassNameProps ==
    <<NoProps,
      Prop("className", Undefined),
      Prop("className", Str("")),
      Prop("className", Str("flex hidden p-0 text-xl")),
      Prop("className", Str("px-2 px-4")),
      Prop("className", Str("my-card my-card")),
      Prop("className", Str("size-10 rounded-none bg-white gap-0"))>>

DataSlotProps == <<NoProps, Prop("data-slot", Str("custom"))>>

IdProps == <<NoProps, Prop("id", Str("x1"))>>

ChildrenProps == <<NoProps, Prop("children", Str("text"))>>

\* The other props a content wrapper is rendered with: none, or all of them.
MoreProps ==
    <<NoProps,
      Spread(Spread(Prop("data-slot", Str("custom")), Prop("id", Str("x1"))),
             Prop("children", Str("text")))>>

SideProps ==
    <<NoProps, Prop("side", Str("right")), Prop("side", Str("left")),
      Prop("side", Str("top")), Prop("side", Str("bottom"))>>

ShowCloseButtonProps ==
    <<NoProps, Prop("showCloseButton", Bool(TRUE)), Prop("showCloseButton", Bool(FALSE))>>

-----------------------------------------------------------------------------
(* The operations.                                                          *)

Init ==
    /\ fn = "none"
    /\ calls = <<>>
    /\ props = NoProps
    /\ elements = <<>>

\* Nothing is kept from one call to the next: an operation starts from the
\* state in which no call is in progress, and Return goes back to it.
Return ==
    /\ fn /= "none"
    /\ fn' = "none"
    /\ calls' = <<>>
    /\ props' = NoProps
    /\ elements' = <<>>

\* The arguments of a call of cn: n class values.
Inputs(n, ix) == [i \in 1..n |-> ClassValues[ix[i]]]

\* cn(cn(...inputs)): the inner call, then the call on its result.
CnOfCn(inputs) ==
    LET outer(inner) == <<inner, Call(<<Str(inner.out)>>)>>
    IN  outer(Call(inputs))

\* The props a forwarding wrapper is rendered with.
ForwardedProps ==
    {Spread(Spread(DataSlotProps[i], IdProps[j]), ChildrenProps[k]) :
        i \in 1..Len(DataSlotProps), j \in 1..Len(IdProps), k \in 1..Len(ChildrenProps)}

\* The props a styled wrapper is rendered with.
StyledProps ==
    {Spread(Spread(ClassNameProps[c], DataSlotProps[i]), IdProps[j]) :
        c \in 1..Len(ClassNameProps), i \in 1..Len(DataSlotProps), j \in 1..Len(IdProps)}

\* The props DialogContent is rendered with.
DialogContentProps ==
    {Spread(Spread(ClassNameProps[c], MoreProps[e]), ShowCloseButtonProps[b]) :
        c \in 1..Len(ClassNameProps), e \in 1..Len(MoreProps),
        b \in 1..Len(ShowCloseButtonProps)}

\* The props SheetContent is rendered with.
SheetContentProps ==
    {Spread(Spread(ClassNameProps[c], MoreProps[e]), SideProps[d]) :
        c \in 1..Len(ClassNameProps), e \in 1..Len(MoreProps), d \in 1..Len(SideProps)}

\* A direct call cn(...inputs), recorded as c.
CallCn(c) ==
    /\ fn = "none"
    /\ fn' = "cn"
    /\ props' = NoProps
    /\ calls' = <<c>>
    /\ elements' = <<>>

\* A caller composing a composition, cn(cn(...inputs)): the two calls cs.
CallCnOfCn(cs) ==
    /\ fn = "none"
    /\ fn' = "cn(cn)"
    /\ props' = NoProps
    /\ calls' = cs
    /\ elements' = <<>>

\* Label is rendered with props p and gives r: the calls of cn it made and
\* the elements it returned.
RenderLabel(p, r) ==
    /\ fn = "none"
    /\ fn' = "Label"
    /\ props' = p
    /\ calls' = r.calls
    /\ elements' = r.elements

\* Avatar is rendered with props p and gives r: the calls of cn it made and
\* the elements it returned.
RenderAvatar(p, r) ==
    /\ fn = "none"
    /\ fn' = "Avatar"
    /\ props' = p
    /\ calls' = r.calls
    /\ elements' = r.elements

\* AvatarImage is rendered with props p and gives r: the calls of cn it made and
\* the elements it returned.
RenderAvatarImage(p, r) ==
    /\ fn = "none"
    /\ fn' = "AvatarImage"
    /\ props' = p
    /\ calls' = r.calls
    /\ elements' = r.elements

\* AvatarFallback is rendered with props p and gives r: the calls of cn it made and
\* the elements it returned.
RenderAvatarFallback(p, r) ==
    /\ fn = "none"
    /\ fn' = "AvatarFallback"
    /\ props' = p
    /\ calls' = r.calls
    /\ elements' = r.elements

\* Dialog is rendered with props p and gives r: the calls of cn it made and
\* the elements it returned.
RenderDialog(p, r) ==
    /\ fn = "none"
    /\ fn' = "Dialog"
    /\ props' = p
    /\ calls' = r.calls
    /\ elements' = r.elements

\* DialogTrigger is rendered with props p and gives r: the calls of cn it made and
\* the elements it returned.
RenderDialogTrigger(p, r) ==
    /\ fn = "none"
    /\ fn' = "DialogTrigger"
    /\ props' = p
    /\ calls' = r.calls
    /\ elements' = r.elements

\* DialogPortal is rendered with props p and gives r: the calls of cn it made and
\* the elements it returned.
RenderDialogPortal(p, r) ==
    /\ fn = "none"
    /\ fn' = "DialogPortal"
    /\ props' = p
    /\ calls' = r.calls
    /\ elements' = r.elements

\* DialogClose is rendered with props p and gives r: the calls of cn it made and
\* the elements it returned.
RenderDialogClose(p, r) ==
    /\ fn = "none"
    /\ fn' = "DialogClose"
    /\ props' = p
    /\ calls' = r.calls
    /\ elements' = r.elements

\* DialogOverlay is rendered with props p and gives r: the calls of cn it made and
\* the elements it returned.
RenderDialogOverlay(p, r) ==
    /\ fn = "none"
    /\ fn' = "DialogOverlay"
    /\ props' = p
    /\ calls' = r.calls
    /\ elements' = r.elements

\* DialogContent is rendered with props p and gives r: the calls of cn it made and
\* the elements it returned.
RenderDialogContent(p, r) ==
    /\ fn = "none"
    /\ fn' = "DialogContent"
    /\ props' = p
    /\ calls' = r.calls
    /\ elements' = r.elements

\* DialogHeader is rendered with props p and gives r: the calls of cn it made and
\* the elements it returned.
RenderDialogHeader(p, r) ==
    /\ fn = "none"
    /\ fn' = "DialogHeader"
    /\ props' = p
    /\ calls' = r.calls
    /\ elements' = r.elements

\* DialogFooter is rendered with props p and gives r: the calls of cn it made and
\* the elements it returned.
RenderDialogFooter(p, r) ==
    /\ fn = "none"
    /\ fn' = "DialogFooter"
    /\ props' = p
    /\ calls' = r.calls
    /\ elements' = r.elements

\* DialogTitle is rendered with props p and gives r: the calls of cn it made and
\* the elements it returned.
RenderDialogTitle(p, r) ==
    /\ fn = "none"
    /\ fn' = "DialogTitle"
    /\ props' = p
    /\ calls' = r.calls
    /\ elements' = r.elements

\* DialogDescription is rendered with props p and gives r: the calls of cn it made and
\* the elements it returned.
RenderDialogDescription(p, r) ==
    /\ fn = "none"
    /\ fn' = "DialogDescription"
    /\ props' = p
    /\ calls' = r.calls
    /\ elements' = r.elements

\* Sheet is rendered with props p and gives r: the calls of cn it made and
\* the elements it returned.
RenderSheet(p, r) ==
    /\ fn = "none"
    /\ fn' = "Sheet"
    /\ props' = p
    /\ calls' = r.calls
    /\ elements' = r.elements

\* SheetTrigger is rendered with props p and gives r: the calls of cn it made and
\* the elements it returned.
RenderSheetTrigger(p, r) ==
    /\ fn = "none"
    /\ fn' = "SheetTrigger"
    /\ props' = p
    /\ calls' = r.calls
    /\ elements' = r.elements

\* SheetClose is rendered with props p and gives r: the calls of cn it made and
\* the elements it returned.
RenderSheetClose(p, r) ==
    /\ fn = "none"
    /\ fn' = "SheetClose"
    /\ props' = p
    /\ calls' = r.calls
    /\ elements' = r.elements

\* SheetPortal is rendered with props p and gives r: the calls of cn it made and
\* the elements it returned.
RenderSheetPortal(p, r) ==
    /\ fn = "none"
    /\ fn' = "SheetPortal"
    /\ props' = p
    /\ calls' = r.calls
    /\ elements' = r.elements

\* SheetOverlay is rendered with props p and gives r: the calls of cn it made and
\* the elements it returned.
RenderSheetOverlay(p, r) ==
    /\ fn = "none"
    /\ fn' = "SheetOverlay"
    /\ props' = p
    /\ calls' = r.calls
    /\ elements' = r.elements

\* SheetContent is rendered with props p and gives r: the calls of cn it made and
\* the elements it returned.
RenderSheetContent(p, r) ==
    /\ fn = "none"
    /\ fn' = "SheetContent"
    /\ props' = p
    /\ calls' = r.calls
    /\ elements' = r.elements

\* SheetHeader is rendered with props p and gives r: the calls of cn it made and
\* the elements it returned.
RenderSheetHeader(p, r) ==
    /\ fn = "none"
    /\ fn' = "SheetHeader"
    /\ props' = p
    /\ calls' = r.calls
    /\ elements' = r.elements

\* SheetFooter is rendered with props p and gives r: the calls of cn it made and
\* the elements it returned.
RenderSheetFooter(p, r) ==
    /\ fn = "none"
    /\ fn' = "SheetFooter"
    /\ props' = p
    /\ calls' = r.calls
    /\ elements' = r.elements

\* SheetTitle is rendered with props p and gives r: the calls of cn it made and
\* the elements it returned.
RenderSheetTitle(p, r) ==
    /\ fn = "none"
    /\ fn' = "SheetTitle"
    /\ props' = p
    /\ calls' = r.calls
    /\ elements' = r.elements

\* SheetDescription is rendered with props p and gives r: the calls of cn it made and
\* the elements it returned.
RenderSheetDescription(p, r) ==
    /\ fn = "none"
    /\ fn' = "SheetDescription"
    /\ props' = p
    /\ calls' = r.calls
    /\ elements' = r.elements

\* Each operation is applied to what the code computes for its inputs.
Next ==
    \/ \E n \in 0..MaxArgs : \E ix \in [1..n -> 1..Len(ClassValues)] :
           CallCn(Call(Inputs(n, ix)))
    \/ \E n \in 0..MaxArgs : \E ix \in [1..n -> 1..Len(ClassValues)] :
           CallCnOfCn(CnOfCn(Inputs(n, ix)))
    \/ \E p \in StyledProps : RenderLabel(p, Label(p))
    \/ \E p \in StyledProps : RenderAvatar(p, Avatar(p))
    \/ \E p \in StyledProps : RenderAvatarImage(p, AvatarImage(p))
    \/ \E p \in StyledProps : RenderAvatarFallback(p, AvatarFallback(p))
    \/ \E p \in ForwardedProps : RenderDialog(p, Dialog(p))
    \/ \E p \in ForwardedProps : RenderDialogTrigger(p, DialogTrigger(p))
    \/ \E p \in ForwardedProps : RenderDialogPortal(p, DialogPortal(p))
    \/ \E p \in ForwardedProps : RenderDialogClose(p, DialogClose(p))
    \/ \E p \in StyledProps : RenderDialogOverlay(p, DialogOverlay(p))
    \/ \E p \in DialogContentProps : RenderDialogContent(p, DialogContent(p))
    \/ \E p \in StyledProps : RenderDialogHeader(p, DialogHeader(p))
    \/ \E p \in StyledProps : RenderDialogFooter(p, DialogFooter(p))
    \/ \E p \in StyledProps : RenderDialogTitle(p, DialogTitle(p))
    \/ \E p \in StyledProps : RenderDialogDescription(p, DialogDescription(p))
    \/ \E p \in ForwardedProps : RenderSheet(p, Sheet(p))
    \/ \E p \in ForwardedProps : RenderSheetTrigger(p, SheetTrigger(p))
    \/ \E p \in ForwardedProps : RenderSheetClose(p, SheetClose(p))
    \/ \E p \in ForwardedProps : RenderSheetPortal(p, SheetPortal(p))
    \/ \E p \in StyledProps : RenderSheetOverlay(p, SheetOverlay(p))
    \/ \E p \in SheetContentProps : RenderSheetContent(p, SheetContent(p))
    \/ \E p \in StyledProps : RenderSheetHeader(p, SheetHeader(p))
    \/ \E p \in StyledProps : RenderSheetFooter(p, SheetFooter(p))
    \/ \E p \in StyledProps : RenderSheetTitle(p, SheetTitle(p))
    \/ \E p \in StyledProps : RenderSheetDescription(p, SheetDescription(p))
    \/ Return

Spec == Init /\ [][Next]_vars

-----------------------------------------------------------------------------
(* The properties.  A call of cn is read through the tokens of its          *)
(* flattened input, the tokens of its output, and the class each token has. *)

Range(s) == {s[i] : i \in 1..Len(s)}

\* The tokens of a class string: its maximal runs of non-blank characters.
Words(s) ==
    LET w == SplitClasses(Trim(s))
    IN  IF w = <<"">> THEN <<>> ELSE w

\* The tokens of the flattened input of a call, in input order.
Flat(inputs) == Words(clsx(<<Arr(inputs)>>))

\* A call with its input tokens, its output tokens and the class of each.
Analysis(c) ==
    LET toks == Flat(c.inputs)
        outs == Words(c.out)
    IN  [toks |-> toks,
         outs |-> outs,
         K |-> [w \in Range(toks) \cup Range(outs) |-> ClassOf(w, configUtils)] @@ <<>>]

\* Input token i belongs to a recognized UtilityGroup.
Known(A, i) == A.K[A.toks[i]].classGroupId /= ""

\* Input tokens i and j belong to the same UtilityGroup.
SameGroup(A, i, j) ==
    /\ Known(A, i)
    /\ Known(A, j)
    /\ A.K[A.toks[i]].classId = A.K[A.toks[j]].classId

\* Input token i is the last one of its UtilityGroup.
LastOfGroup(A, i) ==
    Known(A, i) /\ \A j \in (i + 1)..Len(A.toks) : ~SameGroup(A, i, j)

\* The UtilityGroup of input token i has another input token.
Shared(A, i) == \E j \in 1..Len(A.toks) : j /= i /\ SameGroup(A, i, j)

\* The output tokens of the UtilityGroup of input token i.
OutOfGroup(A, i) ==
    SelectSeq(A.outs, LAMBDA w : /\ A.K[w].classGroupId /= ""
                                 /\ A.K[w].classId = A.K[A.toks[i]].classId)

\* Input token k is in the output.
Survives(A, k) == LastOfGroup(A, k) /\ A.toks[k] \in Range(A.outs)

\* Input token k, under the same prefix, is of a group that overrides the
\* group of input token i (as p overrides px, or font-size overrides leading).
Overrides(A, k, i) ==
    /\ Known(A, k)
    /\ A.K[A.toks[k]].modifierId = A.K[A.toks[i]].modifierId
    /\ A.K[A.toks[i]].classGroupId \in
           getConflictingClassGroupIds(A.K[A.toks[k]].classGroupId,
                                       A.K[A.toks[k]].hasPostfixModifier)

\* C1 as stated: whenever two tokens of the flattened input belong to the same
\* UtilityGroup, the later one, and only it, appears in the output.
C1_LastWriteWins ==
    \A n \in 1..Len(calls) :
        LET A == Analysis(calls[n])
        IN  \A i \in 1..Len(A.toks) :
                (LastOfGroup(A, i) /\ Shared(A, i)) => OutOfGroup(A, i) = <<A.toks[i]>>

\* C1: of the tokens of one UtilityGroup every earlier one is absent from the
\* output; the last one is the only token of its group that can be in the
\* output, and it is there unless a later token that is itself in the output
\* belongs to a group overriding it under the same prefix.
C1_LastWriteWinsUnlessOverridden ==
    \A n \in 1..Len(calls) :
        LET A == Analysis(calls[n])
        IN  \A i \in 1..Len(A.toks) :
                LastOfGroup(A, i) =>
                    LET overridden == \E k \in (i + 1)..Len(A.toks) :
                                          Survives(A, k) /\ Overrides(A, k, i)
                    IN  OutOfGroup(A, i) = IF overridden THEN <<>> ELSE <<A.toks[i]>>

\* A call in which a group has two tokens and the later one is overridden, and
\* a group has two tokens of which the later one is in the output.
C1_Witness ==
    \E n \in 1..Len(calls) :
        LET A == Analysis(calls[n])
        IN  /\ \E i \in 1..Len(A.toks) :
                   LastOfGroup(A, i) /\ Shared(A, i) /\ OutOfGroup(A, i) = <<>>
            /\ fn = "cn"

\* The data-slot each wrapper writes on its element.
WrapperSlot ==
    [Label |-> "label", Avatar |-> "avatar", AvatarImage |-> "avatar-image",
     AvatarFallback |-> "avatar-fallback", Dialog |-> "dialog",
     DialogTrigger |-> "dialog-trigger", DialogPortal |-> "dialog-portal",
     DialogClose |-> "dialog-close", DialogOverlay |-> "dialog-overlay",
     DialogContent |-> "dialog-content", DialogHeader |-> "dialog-header",
     DialogFooter |-> "dialog-footer", DialogTitle |-> "dialog-title",
     DialogDescription |-> "dialog-description", Sheet |-> "sheet",
     SheetTrigger |-> "sheet-trigger", SheetClose |-> "sheet-close",
     SheetPortal |-> "sheet-portal", SheetOverlay |-> "sheet-overlay",
     SheetContent |-> "sheet-content", SheetHeader |-> "sheet-header",
     SheetFooter |-> "sheet-footer", SheetTitle |-> "sheet-title",
     SheetDescription |-> "sheet-description"]

\* C2 as stated: for every props object, one that contains a data-slot key
\* included, the element a wrapper hands to its primitive carries the wrapper's
\* own data-slot value.
C2_StableDataSlot ==
    fn \in DOMAIN WrapperSlot =>
        elements[1].props["data-slot"] = Str(WrapperSlot[fn])

\* The default class string of each styled wrapper.
StyledDefaults ==
    [Label |-> LabelClasses, Avatar |-> AvatarClasses, AvatarImage |-> AvatarImageClasses,
     AvatarFallback |-> AvatarFallbackClasses, DialogOverlay |-> DialogOverlayClasses,
     DialogContent |-> DialogContentClasses, DialogHeader |-> DialogHeaderClasses,
     DialogFooter |-> DialogFooterClasses, DialogTitle |-> DialogTitleClasses,
     DialogDescription |-> DialogDescriptionClasses, SheetOverlay |-> SheetOverlayClasses,
     SheetContent |-> SheetContentClasses, SheetHeader |-> SheetHeaderClasses,
     SheetFooter |-> SheetFooterClasses, SheetTitle |-> SheetTitleClasses,
     SheetDescription |-> SheetDescriptionClasses]

\* The tokens of the className a styled wrapper was rendered with.
CallerTokens == Flat(<<Get(props, "className")>>)

\* The tokens of the className composed on its own.
CallerComposed == Words(cn(<<Get(props, "className")>>))

\* The wrapper calls cn once with its defaults first and the caller's className
\* last, and puts the result on its element.
DefaultsThenCaller ==
    /\ calls[1].inputs[1] = Str(StyledDefaults[fn])
    /\ calls[1].inputs[Len(calls[1].inputs)] = Get(props, "className")
    /\ elements[1].props["className"] = Str(calls[1].out)

\* The output tokens that come from the defaults, given that the last m output
\* tokens come from the caller.
DefaultsKept(A, m) == Range(SubSeq(A.outs, 1, Len(A.outs) - m))

\* A default token of the UtilityGroup of a caller token is dropped, and a
\* default token that no caller token conflicts with is kept; nd is the number
\* of default tokens and m the number of output tokens that are the caller's.
DefaultsGiveWay(A, nd, m) ==
    \A i \in 1..nd :
        /\ (\E k \in (nd + 1)..Len(A.toks) : SameGroup(A, i, k))
               => A.toks[i] \notin DefaultsKept(A, m)
        /\ (\A k \in (nd + 1)..Len(A.toks) : ~SameGroup(A, i, k) /\ ~Overrides(A, k, i))
               => A.toks[i] \in DefaultsKept(A, m)

\* C3 as stated: a styled wrapper composes its defaults with the caller's
\* className last, so every caller token is in the class string, every default
\* token of the group of a caller token is dropped, and every default token
\* that conflicts with no caller token is kept.
C3_EveryCallerTokenSurvives ==
    fn \in DOMAIN StyledDefaults =>
        LET A == Analysis(calls[1])
        IN  /\ DefaultsThenCaller
            /\ Range(CallerTokens) \subseteq Range(A.outs)
            /\ DefaultsGiveWay(A, Len(A.toks) - Len(CallerTokens), Len(CallerTokens))

\* C3: a styled wrapper composes its defaults with the caller's className
\* last; the class string ends with the className composed on its own (a caller
\* token is dropped exactly when a later caller token overrides it), every
\* default token of the group of a caller token is dropped, and every default
\* token that conflicts with no caller token is kept.
C3_CallerOverridesDefaults ==
    fn \in DOMAIN StyledDefaults =>
        LET A == Analysis(calls[1])
            m == Len(CallerComposed)
        IN  /\ DefaultsThenCaller
            /\ m <= Len(A.outs)
            /\ SubSeq(A.outs, Len(A.outs) - m + 1, Len(A.outs)) = CallerComposed
            /\ DefaultsGiveWay(A, Len(A.toks) - Len(CallerTokens), m)

\* A styled wrapper rendered with a className of which one token overrides
\* another and one overrides a default.
C3_Witness ==
    /\ fn \in DOMAIN StyledDefaults
    /\ Len(CallerComposed) < Len(CallerTokens)
    /\ LET A == Analysis(calls[1])
           nd == Len(A.toks) - Len(CallerTokens)
       IN  \E i \in 1..nd : \E k \in (nd + 1)..Len(A.toks) :
               SameGroup(A, i, k) /\ A.toks[i] \notin Range(A.outs)

\* How often token w occurs in s.
Count(s, w) == Cardinality({i \in 1..Len(s) : s[i] = w})

\* The tokens of s at the positions in idx, in order.
At(s, idx) == [k \in 1..Cardinality(idx) |-> s[SortedSeq(idx)[k]]]

\* Input token i is the last occurrence of its string.
LastOccurrence(A, i) == \A j \in (i + 1)..Len(A.toks) : A.toks[j] /= A.toks[i]

\* C4 as stated: the output holds no token string more than once; of a string
\* that occurs several times in the flattened input, recognized or not, one
\* copy is kept, at the position of its last occurrence.
C4_NoTokenTwice ==
    \A n \in 1..Len(calls) :
        LET A == Analysis(calls[n])
        IN  /\ \A w \in Range(A.outs) : Count(A.outs, w) = 1
            /\ A.outs = At(A.toks, {i \in 1..Len(A.toks) :
                                       A.toks[i] \in Range(A.outs) /\ LastOccurrence(A, i)})

\* C4: the output holds no token string of a recognized UtilityGroup more than
\* once, and such a string is kept at the position of its last occurrence; a
\* token string of no recognized group is not deduplicated: it is in the output
\* as often as in the flattened input, each copy in its place.
C4_RecognizedTokenOnce ==
    \A n \in 1..Len(calls) :
        LET A == Analysis(calls[n])
        IN  /\ \A w \in Range(A.outs) :
                   A.K[w].classGroupId /= "" => Count(A.outs, w) = 1
            /\ \A w \in Range(A.toks) :
                   A.K[w].classGroupId = "" => Count(A.outs, w) = Count(A.toks, w)
            /\ A.outs = At(A.toks, {i \in 1..Len(A.toks) :
                                       \/ ~Known(A, i)
                                       \/ /\ A.toks[i] \in Range(A.outs)
                                          /\ LastOccurrence(A, i)})

\* A call in whose flattened input a recognized token string and an
\* unrecognized one each occur twice.
C4_Witness ==
    \E n \in 1..Len(calls) :
        LET A == Analysis(calls[n])
        IN  /\ \E i \in 1..Len(A.toks) :
                   Known(A, i) /\ Count(A.toks, A.toks[i]) = 2 /\ Count(A.outs, A.toks[i]) = 1
            /\ \E i \in 1..Len(A.toks) :
                   ~Known(A, i) /\ Count(A.toks, A.toks[i]) = 2 /\ Count(A.outs, A.toks[i]) = 2

\* The tokens of s that are, or are not, of a recognized UtilityGroup.
Recognized(A, s) == SelectSeq(s, LAMBDA w : A.K[w].classGroupId /= "")
Unrecognized(A, s) == SelectSeq(s, LAMBDA w : A.K[w].classGroupId = "")

\* C5: every token of the flattened input that is of no recognized
\* UtilityGroup is in the output, and the recognized tokens of the output are
\* those that composing the recognized input tokens alone gives: an
\* unrecognized token causes no other token to be dropped.
C5_UnrecognizedTokensSurvive ==
    \A n \in 1..Len(calls) :
        LET A == Analysis(calls[n])
        IN  /\ Unrecognized(A, A.outs) = Unrecognized(A, A.toks)
            /\ Recognized(A, A.outs) = Words(twMerge(Join(Recognized(A, A.toks), " ")))

\* A call with an unrecognized token between recognized tokens of which one
\* is dropped.
C5_Witness ==
    \E n \in 1..Len(calls) :
        LET A == Analysis(calls[n])
        IN  \E i, j, k \in 1..Len(A.toks) :
                /\ i < j
                /\ j < k
                /\ SameGroup(A, i, k)
                /\ ~Known(A, j)
                /\ A.toks[i] \notin Range(A.outs)
                /\ A.toks[j] \in Range(A.outs)

\* The prefix of a token as written: its variants in their order, and whether
\* it carries the important marker.
PrefixAsWritten(w) ==
    [variants |-> parseClassName(w).modifiers,
     important |-> parseClassName(w).hasImportantModifier]

\* A variant that keeps its place in a prefix: an arbitrary variant, written in
\* brackets, or one of the variants whose position changes what they select.
KeepsPlace(variant) == StartsWith(variant, "[") \/ variant \in orderSensitiveModifiers

\* The variants of the run of freely ordered variants around position k of ms,
\* each with the number of times it is written.
RunAt(ms, k) ==
    LET run == {i \in 1..Len(ms) :
                   \A j \in (IF i < k THEN i ELSE k)..(IF i < k THEN k ELSE i) :
                       ~KeepsPlace(ms[j])}
    IN  {<<ms[i], Cardinality({j \in run : ms[j] = ms[i]})>> : i \in run}

\* The prefix of a token irrespective of the order in which its freely
\* ordered variants are written.
PrefixVariants(w) ==
    LET ms == parseClassName(w).modifiers
    IN  [variants |-> [k \in 1..Len(ms) |-> IF KeepsPlace(ms[k]) THEN {<<ms[k], 0>>}
                                             ELSE RunAt(ms, k)],
         important |-> parseClassName(w).hasImportantModifier]

\* Input tokens i and j set the same style property, whatever their prefixes.
SameUtility(A, i, j) ==
    /\ Known(A, i)
    /\ Known(A, j)
    /\ A.K[A.toks[i]].classGroupId = A.K[A.toks[j]].classGroupId

\* The prefix, read by Id, is part of group identity: tokens of one utility are
\* of one UtilityGroup exactly when their prefixes are equal; a token that no
\* later token shares its prefix with is in the output; and of two tokens of
\* one utility composed alone both are in the output when their prefixes
\* differ and only the later one when they are equal.  The two opacity tokens
\* of the Label defaults are both in Label's class string.
Scoped(Id(_)) ==
    /\ \A n \in 1..Len(calls) :
           LET A == Analysis(calls[n])
               id == [w \in Range(A.toks) |-> Id(w)] @@ <<>>
           IN  /\ \A i \in 1..Len(A.toks) : \A j \in (i + 1)..Len(A.toks) :
                      SameUtility(A, i, j) =>
                          (id[A.toks[i]] = id[A.toks[j]] <=> SameGroup(A, i, j))
               /\ \A i \in 1..Len(A.toks) :
                      (/\ Known(A, i)
                       /\ \A k \in (i + 1)..Len(A.toks) :
                              Known(A, k) => id[A.toks[k]] /= id[A.toks[i]])
                          => A.toks[i] \in Range(A.outs)
               /\ (Len(A.toks) = 2 /\ SameUtility(A, 1, 2)) =>
                      A.outs = IF id[A.toks[1]] /= id[A.toks[2]] THEN A.toks
                               ELSE <<A.toks[2]>>
    /\ fn = "Label" =>
           {"group-data-[disabled=true]:opacity-50", "peer-disabled:opacity-50"}
               \subseteq Range(Words(calls[1].out))

\* C6 as stated: two tokens of the same utility with different prefixes never
\* conflict and both survive, and two tokens with the same prefix and the same
\* property conflict, an arbitrary bracketed value included.
C6_PrefixAsWrittenScopes == Scoped(PrefixAsWritten)

\* C6: the prefix that is part of group identity is the variants of the token
\* irrespective of the order in which they are written (except that an
\* arbitrary variant and a position-sensitive variant such as before keep their
\* place), together with the important marker: tokens of the same utility
\* whose prefixes differ in that sense never conflict and both survive, and
\* tokens whose prefixes are equal in that sense conflict, an arbitrary
\* bracketed value included.
C6_PrefixVariantsScope == Scoped(PrefixVariants)

\* A call of two tokens of one utility whose prefixes are the same variants
\* written in different orders: only the later one is in the output.
C6_Witness ==
    \E n \in 1..Len(calls) :
        LET A == Analysis(calls[n])
        IN  /\ Len(A.toks) = 2
            /\ SameUtility(A, 1, 2)
            /\ PrefixAsWritten(A.toks[1]) /= PrefixAsWritten(A.toks[2])
            /\ PrefixVariants(A.toks[1]) = PrefixVariants(A.toks[2])
            /\ A.outs = <<A.toks[2]>>

\* C7: composing the result of a composition changes nothing, for the call
\* cn(cn(a, b)) and for the result of every call a wrapper makes.
C7_Idempotent ==
    /\ fn = "cn(cn)" =>
           /\ calls[2].inputs = <<Str(calls[1].out)>>
           /\ calls[2].out = calls[1].out
    /\ \A n \in 1..Len(calls) : cn(<<Str(calls[n].out)>>) = calls[n].out

\* cn(cn(a, b)) where composing a and b drops a token.
C7_Witness ==
    /\ fn = "cn(cn)"
    /\ Len(calls[1].inputs) = 2
    /\ Len(Words(calls[1].out)) < Len(Flat(calls[1].inputs))
    /\ calls[2].out /= ""

\* A value that is falsy: null, undefined, false, 0 or the empty string.
Falsy(x) ==
    \/ x.t \in {"null", "undefined"}
    \/ x.t = "boolean" /\ ~x.v
    \/ x.t = "number" /\ x.v = 0
    \/ x.t = "string" /\ x.v = ""

\* The key tokens of a mapping: those whose value is not falsy.
RECURSIVE KeyTokens(_)
KeyTokens(entries) ==
    IF entries = <<>> THEN <<>>
    ELSE (IF Falsy(Head(entries).v) THEN <<>> ELSE Words(Head(entries).k))
             \o KeyTokens(Tail(entries))

\* The flattening of the specification: the tokens of a string, the flattening
\* of the items of a sequence in order, the key tokens of a mapping, nothing
\* for anything else; with numbers set, a number other than 0 gives its
\* decimal text.
RECURSIVE Flatten(_, _)
RECURSIVE FlattenAll(_, _)
Flatten(x, numbers) ==
    CASE x.t = "string" -> Words(x.v)
      [] x.t = "array" -> FlattenAll(x.v, numbers)
      [] x.t = "object" -> KeyTokens(x.v)
      [] x.t = "number" /\ numbers /\ x.v /= 0 -> <<ToString(x.v)>>
      [] OTHER -> <<>>

FlattenAll(xs, numbers) ==
    IF xs = <<>> THEN <<>>
    ELSE Flatten(Head(xs), numbers) \o FlattenAll(Tail(xs), numbers)

\* x is a ClassInput or a falsy value: a string, a sequence of such values, a
\* mapping, or one of null, undefined, false and 0.
RECURSIVE IsClassInput(_)
IsClassInput(x) ==
    CASE x.t = "string" -> TRUE
      [] x.t = "array" -> \A i \in 1..Len(x.v) : IsClassInput(x.v[i])
      [] x.t = "object" -> TRUE
      [] OTHER -> Falsy(x)

\* C8: a mapping contributes a key exactly when its value is truthy, and
\* falsy, null, undefined and empty-string inputs contribute nothing at any
\* depth: the flattened input of a call is the flattening of the
\* specification; when that is empty the call returns the empty string; and
\* the three side arguments of SheetContent that are false contribute nothing.
C8_Flattening ==
    /\ \A n \in 1..Len(calls) :
           (\A i \in 1..Len(calls[n].inputs) : IsClassInput(calls[n].inputs[i])) =>
               /\ Flat(calls[n].inputs) = FlattenAll(calls[n].inputs, FALSE)
               /\ FlattenAll(calls[n].inputs, FALSE) = <<>> => calls[n].out = ""
    /\ fn = "SheetContent" =>
           /\ Cardinality({k \in 2..5 : calls[1].inputs[k] = Bool(FALSE)}) = 3
           /\ Flat(calls[1].inputs) =
                  Flat(SelectSeq(calls[1].inputs, LAMBDA x : x /= Bool(FALSE)))

\* A call with a mapping of a truthy and a falsy value next to a sequence of
\* falsy values only.
C8_Witness ==
    \E n \in 1..Len(calls) :
        /\ \E i \in 1..Len(calls[n].inputs) :
               /\ calls[n].inputs[i].t = "object"
               /\ \E e \in Range(calls[n].inputs[i].v) : Falsy(e.v)
               /\ \E e \in Range(calls[n].inputs[i].v) : ~Falsy(e.v)
        /\ \E i \in 1..Len(calls[n].inputs) :
               /\ calls[n].inputs[i].t = "array"
               /\ calls[n].inputs[i].v /= <<>>
               /\ FlattenAll(calls[n].inputs[i].v, FALSE) = <<>>
        /\ calls[n].out = "font-bold"

\* C9: the output is the surviving occurrences of the flattened input in input
\* order, joined by single spaces with no blank at either end, where the
\* flattened input lists earlier arguments first and a nested sequence in
\* place, depth-first.
C9_OrderPreserved ==
    \A n \in 1..Len(calls) :
        LET A == Analysis(calls[n])
        IN  /\ A.toks = FlattenAll(calls[n].inputs, TRUE)
            /\ A.outs = At(A.toks, {i \in 1..Len(A.toks) : ~Known(A, i) \/ Survives(A, i)})
            /\ calls[n].out = Join(A.outs, " ")

\* A call whose first argument is a nested sequence, with a token dropped and
\* at least four tokens in the output.
C9_Witness ==
    \E n \in 1..Len(calls) :
        /\ Len(calls[n].inputs) = 2
        /\ calls[n].inputs[1].t = "array"
        /\ \E x \in Range(calls[n].inputs[1].v) : x.t = "array" /\ x.v /= <<>>
        /\ Len(Words(calls[n].out)) >= 4
        /\ Len(Words(calls[n].out)) < Len(Flat(calls[n].inputs))

WrapperOptions ==
    [w \in DOMAIN WrapperSlot |->
        IF w = "DialogContent" THEN {"className", "children", "showCloseButton"}
        ELSE IF w = "SheetContent" THEN {"className", "children", "side"}
        ELSE IF w \in DOMAIN StyledDefaults THEN {"className"}
        ELSE {}]

=============================================================================
